---- MODULE Spec2Model ----
(***************************************************************************)
(* A model of src/main.py, the PDF translation service: the page loop of   *)
(* TranslateApi._translate_pdf, the block loop of __translate_one_page,    *)
(* the chunking of __translate, the merge of __merge_pdfs and the two      *)
(* HTTP handlers that share one temporary directory.                       *)
(*                                                                         *)
(* Strings are sequences of Unicode code points, so that lower(), the      *)
(* regular expressions and the lexicographic sort act on characters.       *)
(***************************************************************************)
EXTENDS Integers, Sequences, FiniteSets, TLC

VARIABLES
    \* ---- __translate's chunking, exercised on its own (SpecChunk)
    text,               \* the argument of __translate
    texts,              \* the list of chunks it builds
    rest,               \* what the loop has not consumed
    cpc,                \* "input" before the call, "split" after
    \* ---- the service
    temp_dir_name,      \* self.temp_dir_name: the current temporary directory
    dirs_made,          \* how many temporary directories were created so far
    fs,                 \* the file system: path <<dir, name>> -> file content
    req,                \* per request: its state, upload and response
    running,            \* the request whose handler holds the event loop, or 0
    \* ---- locals of the running _translate_pdf
    pc,                 \* position in _translate_pdf
    pdf_images,         \* the rasterized pages
    output_dir,         \* the output_dir argument
    i,                  \* the page index of the for loop (0-based)
    reached_references, \* the flag of _translate_pdf
    pdf_files,          \* the list of per-page output paths
    \* ---- locals of the running __translate_one_page
    img,                \* the page image being overwritten
    original_img,       \* its deep copy
    k,                  \* index of the next block of the layout result (1-based)
    page_reached,       \* the callee's own reached_references
    translated_texts    \* the list the last call of __translate built (and printed)

chunk_vars == <<text, texts, rest, cpc>>
server_vars == <<temp_dir_name, dirs_made, fs, req, running>>
pdf_vars == <<pc, pdf_images, output_dir, i, reached_references, pdf_files>>
page_vars == <<img, original_img, k, page_reached, translated_texts>>
vars == <<chunk_vars, server_vars, pdf_vars, page_vars>>

----
\* Bounds of the model

\* longest chunking input, in windows of CHUNK characters
MaxWindows == 2
\* chunking inputs lie within this distance of a multiple of CHUNK
MaxSlack == 1
\* most periods in a chunking input
MaxDots == 2
\* most pages of a document of the page-loop specification
MaxPages == 3
\* pages of the long document of SpecLong
LongPages == 1001
\* characters of the long OCR line
LongLineLen == 600
\* requests the server receives
MaxRequests == 2
\* temporary directories the server may create
MaxDirs == 2

----
\* Program constants

\* the 512 of __translate
CHUNK == 512
\* TranslateApi.FONT_SIZE
FONT_SIZE == 36

----
\* Characters and Python's string operations

DOT == 46
SPACE == 32

Min(a, b) == IF a < b THEN a ELSE b

MaxOf(S) == CHOOSE x \in S : \A y \in S : y <= x

\* s[:n]
Prefix(s, n) == SubSeq(s, 1, Min(n, Len(s)))

\* s[n:]
Suffix(s, n) == SubSeq(s, n + 1, Len(s))

\* s.rsplit(".", 1)[0]: what precedes the last period, or s when it has none
RsplitHead(s) ==
    LET dots == {p \in 1..Len(s) : s[p] = DOT}
    IN  IF dots = {} THEN s ELSE SubSeq(s, 1, MaxOf(dots) - 1)

\* the comparison of __translate made inclusive
TooLongInclusive(t) == Len(t) >= CHUNK

\* len(text) > 512
TooLong(t) == Len(t) > CHUNK

\* the upper end of the slice taken in iteration n of the chunking loop
Window(n) == (n + 1) * CHUNK

\* the for loop of __translate from iteration n on, of `count` iterations
RECURSIVE ChunkLoop(_, _, _, _)
ChunkLoop(r, n, count, acc) ==
    IF n >= count THEN [texts |-> acc, rest |-> r]
    ELSE LET truncated == RsplitHead(Prefix(r, Window(n)))
         IN  ChunkLoop(Suffix(r, Len(truncated)), n + 1, count,
                       Append(acc, truncated))

\* The first half of __translate: the list of chunks and the unconsumed rest
SplitText(t) ==
    IF TooLong(t)
    THEN ChunkLoop(t, 0, (Len(t) \div CHUNK) + 1, <<>>)
    ELSE [texts |-> <<t>>, rest |-> <<>>]

RECURSIVE Concat(_)
Concat(ss) == IF ss = <<>> THEN <<>> ELSE Head(ss) \o Concat(Tail(ss))

----
\* Text as the code handles it

\* str.lower(), on the ASCII letters
Lower(s) == [p \in 1..Len(s) |-> IF s[p] >= 65 /\ s[p] <= 90 THEN s[p] + 32 ELSE s[p]]

\* "references" and "reference"
REFERENCES == <<114, 101, 102, 101, 114, 101, 110, 99, 101, 115>>
REFERENCE == <<114, 101, 102, 101, 114, 101, 110, 99, 101>>

\* title.lower() == "references" or title.lower() == "reference"
IsReferencesTitle(title) == Lower(title) = REFERENCES \/ Lower(title) = REFERENCE

\* " ".join(ocr_results)
RECURSIVE JoinLines(_)
JoinLines(ls) ==
    IF ls = <<>> THEN <<>>
    ELSE IF Len(ls) = 1 THEN ls[1]
    ELSE ls[1] \o <<SPACE>> \o JoinLines(Tail(ls))

\* the characters of the pattern \n|\t|\[|\]|\/|\|
Breakers == {10, 9, 91, 93, 47, 124}

\* re.sub(r"\n|\t|\[|\]|\/|\|", " ", text)
Normalize(t) == [p \in 1..Len(t) |-> IF t[p] \in Breakers THEN SPACE ELSE t[p]]

\* a character of [぀-ゟ゠-ヿ一-鿿㐀-䶿]
InJapaneseClass(c) ==
    \/ c >= 12352 /\ c <= 12447
    \/ c >= 12448 /\ c <= 12543
    \/ c >= 19968 /\ c <= 40959
    \/ c >= 13312 /\ c <= 19903

\* len(re.findall(r"[^...]", translated_text))
CountOutside(t) == Cardinality({p \in 1..Len(t) : ~InJapaneseClass(t[p])})

\* the gate with >= in place of >
GateRejectsInclusive(t) == 5 * CountOutside(t) >= 4 * Len(t)

\* len(re.findall(...)) > 0.8 * len(translated_text). The product is the
\* double nearest to 0.8 * len: the integer itself when len is a multiple
\* of 5, and otherwise at least 0.2 away from every integer, so the
\* comparison with the integer count agrees with 5 * count > 4 * len.
GateRejects(t) == 5 * CountOutside(t) > 4 * Len(t)

\* the literal of res.startswith(...)
ARTIFACT == <<12300, 12371, 12398, 29256>>

\* res.startswith(ARTIFACT)
IsArtifact(res) == Len(res) >= Len(ARTIFACT) /\ SubSeq(res, 1, Len(ARTIFACT)) = ARTIFACT

\* The second half of __translate: res[n] is what the translation model
\* decodes for chunk n; the chunks whose result is an artifact are skipped.
RECURSIVE KeepTranslations(_)
KeepTranslations(res) ==
    IF res = <<>> THEN <<>>
    ELSE IF IsArtifact(Head(res)) THEN KeepTranslations(Tail(res))
    ELSE <<Head(res)>> \o KeepTranslations(Tail(res))

\* the text of a non-title block as it is handed to __translate
BlockText(line) == Normalize(JoinLines(line.ocr))

\* the number of chunks __translate makes of a block's text
ChunkCount(line) == Len(SplitText(BlockText(line)).texts)

----
\* File names and the merge order

\* the decimal digits of n, as characters
RECURSIVE Digits(_)
Digits(n) == IF n < 10 THEN <<48 + n>> ELSE Digits(n \div 10) \o <<48 + (n % 10)>>

\* the width of the format specification 03
NAME_WIDTH == 3

\* zero padding up to width w
RECURSIVE Pad(_, _)
Pad(d, w) == IF Len(d) >= w THEN d ELSE Pad(<<48>> \o d, w)

\* ".pdf"
PDF_EXT == <<46, 112, 100, 102>>

\* f"{i:03}.pdf"
PageFileName(n) == Pad(Digits(n), NAME_WIDTH) \o PDF_EXT

\* "translated.pdf"
TRANSLATED_PDF == <<116, 114, 97, 110, 115, 108, 97, 116, 101, 100>> \o PDF_EXT

\* a < b for Python strings: by code point, a proper prefix first
RECURSIVE StrLess(_, _)
StrLess(a, b) ==
    IF b = <<>> THEN FALSE
    ELSE IF a = <<>> THEN TRUE
    ELSE IF Head(a) # Head(b) THEN Head(a) < Head(b)
    ELSE StrLess(Tail(a), Tail(b))

\* paths of one directory compare by their file names
PathLess(p, q) == StrLess(p[2], q[2])

\* sorted(pdf_files)
SortedFiles(files) == SortSeq(files, PathLess)

----
\* Pages, blocks and what the external models return for them

\* the x ranges of the page image the model tells apart: [0,180) and [180,360)
Bands == {0, 180}

\* one element of the layout model's result: its type, its bbox
\* (x0, y0, x1, y1) and what the OCR model reads in its image
Block(type, x0, x1, ocr) == [type |-> type, bbox |-> <<x0, 0, x1, 120>>, ocr |-> ocr]

\* a rasterized page: its number stands for its pixels, layout is the
\* layout model's result for it
PageImage(no, layout) == [no |-> no, size |-> <<2550, 3300>>, layout |-> layout]

\* np.array(image): the content of each band of the page
Pixels(image) == [b \in Bands |-> [k |-> "o", v |-> <<image.no, b>>, at |-> b]]

LineAb == <<97, 98>>
LineCd == <<99, 91, 100, 93, 46>>
LineSeven == <<55>>
LineLong == [p \in 1..LongLineLen |-> 97 + (p % 3)]
TwoLines == <<LineAb, LineCd>>

TitleReferences == <<82, 101, 102, 101, 114, 101, 110, 99, 101, 115>>
TitleREFERENCE == <<82, 69, 70, 69, 82, 69, 78, 67, 69>>
TitleIntroduction == <<73, 110, 116, 114, 111, 100, 117, 99, 116, 105, 111, 110>>
TitleReferenced == <<82, 101, 102, 101, 114, 101, 110, 99, 101, 100>>

LayoutIntro ==
    <<Block("title", 0, 360, <<TitleIntroduction>>), Block("text", 0, 180, TwoLines)>>
LayoutRefMid ==
    <<Block("text", 0, 180, TwoLines),
      Block("title", 0, 360, <<TitleReferences, LineAb>>),
      Block("text", 0, 360, TwoLines)>>
LayoutRefThenTitle ==
    <<Block("title", 0, 360, <<TitleREFERENCE>>),
      Block("title", 0, 180, <<TitleIntroduction>>)>>
LayoutOther ==
    <<Block("title", 0, 360, <<TitleReferenced>>),
      Block("figure", 180, 360, <<>>),
      Block("text", 0, 180, <<LineSeven>>)>>
LayoutTitleUnread == <<Block("title", 0, 360, <<>>)>>
LayoutBlank == <<>>
LayoutLong == <<Block("text", 0, 360, <<LineLong, LineAb>>)>>
LayoutRefFirst ==
    <<Block("title", 0, 360, <<TitleReferences>>), Block("text", 0, 180, TwoLines)>>

Layouts ==
    {LayoutIntro, LayoutRefMid, LayoutRefThenTitle, LayoutOther,
     LayoutTitleUnread, LayoutBlank}

\* what the translation model may decode for a chunk: target script only
\* (the ends of the four ranges), exactly 80% outside, more than 80%
\* outside, the artifact, and nothing
OutJapanese == <<12352, 12447, 12448, 12543, 19968, 40959, 13312, 19903>>
OutEighty == <<12351, 12544, 13311, 19904, 19968>>
OutMostlyOther == <<12351, 12544, 13311, 19904, 40960, 12354>>
OutArtifact == ARTIFACT \o <<12354>>
OutEmpty == <<>>
TransOutputs == {OutJapanese, OutEighty, OutMostlyOther, OutArtifact, OutEmpty}

\* documents: every sequence of 1..MaxPages pages over Layouts
DocOf(ls) == [j \in 1..Len(ls) |-> PageImage(j - 1, ls[j])]
Docs ==
    {DocOf(ls) : ls \in UNION {[1..n -> Layouts] : n \in 1..MaxPages}}
    \cup {DocOf(<<LayoutLong>>), DocOf(<<LayoutRefFirst, LayoutLong>>)}

\* long documents: a first page with blocks, then blank pages
LongDocs ==
    {DocOf([j \in 1..n |-> IF j = 1 THEN first ELSE LayoutBlank]) :
        n \in {2, 10, 11, 100, 101, LongPages - 1, LongPages},
        first \in {LayoutRefFirst, LayoutRefMid}}

\* the uploads of the server specification
ServerDocs ==
    {DocOf(<<LayoutRefFirst, LayoutBlank>>),
     DocOf(<<LayoutRefThenTitle, LayoutIntro>>),
     DocOf(<<LayoutTitleUnread>>)}

----
\* Rendering and the page files

\* fw_fill(translated_text, width) of utils: the text filled to the width
FwFill(t, width) == [text |-> t, width |-> width]

\* int((bbox[2] - bbox[0]) / (FONT_SIZE / 2)) - 1
WrapWidth(line) == ((line.bbox[3] - line.bbox[1]) \div (FONT_SIZE \div 2)) - 1

\* img[bbox[1]:bbox[3], bbox[0]:bbox[2]] = new_block, the block drawn with
\* the filled text from its top left corner
Paste(im, line, t) ==
    [b \in Bands |->
        IF line.bbox[1] <= b /\ b < line.bbox[3]
        THEN [k |-> "t", v |-> FwFill(t, WrapWidth(line)), at |-> b - line.bbox[1]]
        ELSE im[b]]

\* what one non-title block with more than one OCR line does to the page
\* image, given the translations __translate kept
RenderBlock(im, line, kept) ==
    IF GateRejects(Concat(kept)) THEN im ELSE Paste(im, line, Concat(kept))

\* the title branch assigning the comparison itself to the flag
NextFlagAssigned(flag, title) == IsReferencesTitle(title)

\* the title branch: the flag after a title whose first OCR line is `title`
NextFlag(flag, title) == IF IsReferencesTitle(title) THEN TRUE ELSE flag

\* a file that is not there
NoFile == [kind |-> "none", panels |-> <<>>, size |-> <<>>]

\* plt.subplots(1, 2, figsize=(20, 14)) with the two images, saved as pdf
TwoPanel(original, translated) ==
    [kind |-> "two_panel", panels |-> <<original, translated>>, size |-> <<20, 14>>]

\* image.convert("RGB").resize((int(1400 / h * w), 1400)) saved as pdf
Resized(image) ==
    [kind |-> "resized", panels |-> <<Pixels(image)>>,
     size |-> <<(1400 * image.size[1]) \div image.size[2], 1400>>]

\* PdfMerger: the pages of the appended files, in the order appended
Merged(files) ==
    [kind |-> "merged", panels |-> [n \in 1..Len(files) |-> fs[files[n]]], size |-> <<>>]

\* the file system f after path is written with content c
WriteFile(f, path, c) == (path :> c) @@ f

\* path written with content c
Written(path, c) == WriteFile(fs, path, c)

\* the loop never consulting the flag
TranslatingAlways == TRUE

\* does the loop take the translating branch for the next page
Translating == ~reached_references

----
\* _translate_pdf and __translate_one_page, one step per page or block

NoRequest == [state |-> "none", upload |-> <<>>, path |-> <<>>, made |-> NoFile, body |-> NoFile]

CurrentPage == pdf_images[i + 1]

\* line 133: the call of __translate_one_page, up to its block loop
TranslatePage ==
    /\ pc = "loop"
    /\ i < Len(pdf_images)
    /\ Translating
    /\ img' = Pixels(CurrentPage)
    /\ original_img' = Pixels(CurrentPage)
    /\ k' = 1
    /\ page_reached' = reached_references
    /\ pc' = "blocks"
    /\ UNCHANGED <<pdf_images, output_dir, i, reached_references, pdf_files>>
    /\ UNCHANGED <<translated_texts, chunk_vars, server_vars>>

\* lines 203-254: one iteration of the block loop
ProcessBlock ==
    /\ pc = "blocks"
    /\ k <= Len(CurrentPage.layout)
    /\ LET line == CurrentPage.layout[k]
       IN  IF line.type # "title"
           THEN /\ IF Len(line.ocr) > 1
                   THEN \E res \in [1..ChunkCount(line) -> TransOutputs] :
                            /\ translated_texts' = KeepTranslations(res)
                            /\ img' = RenderBlock(img, line, KeepTranslations(res))
                   ELSE UNCHANGED <<img, translated_texts>>
                /\ k' = k + 1
                /\ UNCHANGED <<pc, page_reached>>
           ELSE IF line.ocr = <<>>
                THEN \* [1][0][0] of an empty result: IndexError
                     /\ pc' = "raised"
                     /\ UNCHANGED <<img, translated_texts, k, page_reached>>
                ELSE /\ page_reached' = NextFlag(page_reached, line.ocr[1])
                     /\ k' = k + 1
                     /\ UNCHANGED <<pc, img, translated_texts>>
    /\ UNCHANGED <<pdf_images, output_dir, i, reached_references, pdf_files>>
    /\ UNCHANGED <<original_img, chunk_vars, server_vars>>

\* lines 255, 133-144, 152: the page returns and is saved as two panels
SavePage ==
    /\ pc = "blocks"
    /\ k > Len(CurrentPage.layout)
    /\ reached_references' = page_reached
    /\ fs' = Written(<<output_dir, PageFileName(i)>>, TwoPanel(original_img, img))
    /\ pdf_files' = Append(pdf_files, <<output_dir, PageFileName(i)>>)
    /\ i' = i + 1
    /\ pc' = "loop"
    /\ translated_texts' = <<>>
    /\ UNCHANGED <<pdf_images, output_dir, img, original_img, k, page_reached>>
    /\ UNCHANGED <<chunk_vars, temp_dir_name, dirs_made, req, running>>

\* lines 145-150 for the pages lo..hi, in page order: each is resized and
\* saved as it is. The range is halved, and the first half is written (the
\* test evaluates it) before the second, to keep the evaluation shallow.
RECURSIVE SaveResized(_, _, _)
SaveResized(f, lo, hi) ==
    IF lo > hi THEN f
    ELSE IF lo = hi
    THEN WriteFile(f, <<output_dir, PageFileName(lo)>>, Resized(pdf_images[lo + 1]))
    ELSE LET mid == (lo + hi) \div 2
             first == SaveResized(f, lo, mid)
         IN  IF <<output_dir, PageFileName(mid)>> \in DOMAIN first
             THEN SaveResized(first, mid + 1, hi)
             ELSE first

\* lines 130-132, 145-152: once the flag is set no later iteration can
\* change it, so the loop runs through its else branch to the last page
PassThroughPages ==
    /\ pc = "loop"
    /\ i < Len(pdf_images)
    /\ ~Translating
    /\ fs' = SaveResized(fs, i, Len(pdf_images) - 1)
    /\ pdf_files' = pdf_files \o [n \in 1..(Len(pdf_images) - i) |->
                                    <<output_dir, PageFileName(i + n - 1)>>]
    /\ i' = Len(pdf_images)
    /\ UNCHANGED <<pc, pdf_images, output_dir, reached_references, page_vars>>
    /\ UNCHANGED <<chunk_vars, temp_dir_name, dirs_made, req, running>>

\* lines 154, 312-316: the per-page files are merged into translated.pdf
MergePdfs ==
    /\ pc = "loop"
    /\ i = Len(pdf_images)
    /\ fs' = Written(<<temp_dir_name, TRANSLATED_PDF>>, Merged(SortedFiles(pdf_files)))
    /\ pc' = "done"
    /\ UNCHANGED <<pdf_images, output_dir, i, reached_references, pdf_files, page_vars>>
    /\ UNCHANGED <<chunk_vars, temp_dir_name, dirs_made, req, running>>

NextPdf == TranslatePage \/ ProcessBlock \/ SavePage \/ PassThroughPages \/ MergePdfs

----
\* The handlers of the service

\* translate_pdf from the end of `await input_pdf.read()`: the body runs
\* without a further await, so it holds the event loop until it returns
Handle(r) ==
    /\ running = 0
    /\ pc = "idle"
    /\ req[r].state = "none"
    /\ IF r = 1 THEN TRUE ELSE req[r - 1].state # "none"
    /\ \E doc \in ServerDocs :
        /\ req' = [req EXCEPT ![r].state = "handling", ![r].upload = doc]
        /\ pdf_images' = doc
    /\ running' = r
    /\ output_dir' = temp_dir_name
    /\ pc' = "loop"
    /\ i' = 0
    /\ reached_references' = FALSE
    /\ pdf_files' = <<>>
    /\ UNCHANGED <<page_vars, chunk_vars, temp_dir_name, dirs_made, fs>>

\* lines 91-93: the handler returns a FileResponse on the path of the merged
\* file; `made` remembers what the handler had written there
Respond ==
    /\ running # 0
    /\ pc = "done"
    /\ req' = [req EXCEPT ![running].state = "responded",
                          ![running].path = <<temp_dir_name, TRANSLATED_PDF>>,
                          ![running].made = fs[<<temp_dir_name, TRANSLATED_PDF>>]]
    /\ running' = 0
    /\ pc' = "idle"
    /\ UNCHANGED <<pdf_images, output_dir, i, reached_references, pdf_files>>
    /\ UNCHANGED <<page_vars, chunk_vars, temp_dir_name, dirs_made, fs>>

\* the exception of the handler ends the request
Fail ==
    /\ running # 0
    /\ pc = "raised"
    /\ req' = [req EXCEPT ![running].state = "error"]
    /\ running' = 0
    /\ pc' = "idle"
    /\ UNCHANGED <<pdf_images, output_dir, i, reached_references, pdf_files>>
    /\ UNCHANGED <<page_vars, chunk_vars, temp_dir_name, dirs_made, fs>>

\* the FileResponse is sent: the file at its path is read then
SendFile(r) ==
    /\ running = 0
    /\ req[r].state = "responded"
    /\ req' = IF req[r].path \in DOMAIN fs
              THEN [req EXCEPT ![r].state = "sent", ![r].body = fs[req[r].path]]
              ELSE [req EXCEPT ![r].state = "send_error"]
    /\ UNCHANGED <<running, temp_dir_name, dirs_made, fs>>
    /\ UNCHANGED <<pdf_vars, page_vars, chunk_vars>>

\* lines 95-100: clear_temp_dir removes the directory and makes a new one
ClearTempDir ==
    /\ running = 0
    /\ dirs_made < MaxDirs
    /\ fs' = [q \in {q \in DOMAIN fs : q[1] # temp_dir_name} |-> fs[q]]
    /\ temp_dir_name' = dirs_made + 1
    /\ dirs_made' = dirs_made + 1
    /\ UNCHANGED <<req, running, pdf_vars, page_vars, chunk_vars>>

NextServer ==
    \/ NextPdf
    \/ \E r \in 1..MaxRequests : Handle(r)
    \/ Respond
    \/ Fail
    \/ \E r \in 1..MaxRequests : SendFile(r)
    \/ ClearTempDir

----
\* The chunking of __translate on its own

ChunkLengths ==
    {n \in {w * CHUNK + d : w \in 0..MaxWindows, d \in (0 - MaxSlack)..MaxSlack} : n >= 1}

ChunkInput(n, dots) == [p \in 1..n |-> IF p \in dots THEN DOT ELSE 97 + (p % 3)]

ChunkInputs ==
    {ChunkInput(n, dots) :
        n \in ChunkLengths,
        dots \in {d \in SUBSET {1, 2, 256, 511, 512, 513, 1023, 1024} : Cardinality(d) <= MaxDots}}

\* lines 273-282
Split ==
    /\ cpc = "input"
    /\ texts' = SplitText(text).texts
    /\ rest' = SplitText(text).rest
    /\ cpc' = "split"
    /\ UNCHANGED <<text, server_vars, pdf_vars, page_vars>>

----
\* Specifications

ChunkUnused == text = <<>> /\ texts = <<>> /\ rest = <<>> /\ cpc = "unused"

ServerStart ==
    /\ temp_dir_name = 1
    /\ dirs_made = 1
    /\ fs = [q \in {} |-> NoFile]
    /\ req = [r \in 1..MaxRequests |-> NoRequest]
    /\ running = 0

PageUnused ==
    /\ img = <<>>
    /\ original_img = <<>>
    /\ k = 1
    /\ page_reached = FALSE
    /\ translated_texts = <<>>

PdfUnused ==
    /\ pc = "idle"
    /\ pdf_images = <<>>
    /\ output_dir = 0
    /\ i = 0
    /\ reached_references = FALSE
    /\ pdf_files = <<>>

\* lines 123-129: _translate_pdf entered with the pages of doc
PdfEntered(doc) ==
    /\ pc = "loop"
    /\ pdf_images = doc
    /\ output_dir = temp_dir_name
    /\ i = 0
    /\ reached_references = FALSE
    /\ pdf_files = <<>>

\* one call of _translate_pdf on a new TranslateApi
Init == ChunkUnused /\ ServerStart /\ PageUnused /\ \E doc \in Docs : PdfEntered(doc)

Spec == Init /\ [][NextPdf]_vars

\* one call of _translate_pdf on a long document
InitLong == ChunkUnused /\ ServerStart /\ PageUnused /\ \E doc \in LongDocs : PdfEntered(doc)

SpecLong == InitLong /\ [][NextPdf]_vars

\* the service with its two handlers
InitServer == ChunkUnused /\ ServerStart /\ PageUnused /\ PdfUnused

SpecServer == InitServer /\ [][NextServer]_vars

\* __translate's chunking of one text
InitChunk ==
    /\ text \in ChunkInputs
    /\ texts = <<>>
    /\ rest = text
    /\ cpc = "input"
    /\ ServerStart /\ PageUnused /\ PdfUnused

SpecChunk == InitChunk /\ [][Split]_vars

----
\* Properties

\* the titles that read "references" or "reference" in some case
ReferenceTitles == {TitleReferences, TitleREFERENCE}

\* the page has a title block whose first OCR line is such a title
HasReferencesTitle(page) ==
    \E n \in 1..Len(page.layout) :
        /\ page.layout[n].type = "title"
        /\ page.layout[n].ocr # <<>>
        /\ page.layout[n].ocr[1] \in ReferenceTitles

\* the file saved for page n (0-based) of the running call
PageFile(n) == fs[<<output_dir, PageFileName(n)>>]

\* the step is an iteration of the block loop that went on to the next block
BlockDone == pc = "blocks" /\ pc' = "blocks" /\ k' = k + 1

\* that iteration handled a non-title block
BodyBlockDone == BlockDone /\ CurrentPage.layout[k].type # "title"

\* the characters of Hiragana, Katakana, CJK Unified Ideographs and Extension A
TargetScript == (12352..12447) \cup (12448..12543) \cup (19968..40959) \cup (13312..19903)

OutsideTarget(t) == Cardinality({p \in 1..Len(t) : t[p] \notin TargetScript})

\* the bands of the page image a block covers
BandsOf(line) == {b \in Bands : line.bbox[1] <= b /\ b < line.bbox[3]}

\* the block's region shows the translated text t
ShowsText(im, line, t) == \A b \in BandsOf(line) : im[b].k = "t" /\ im[b].v.text = t

\* C1: within one call of _translate_pdf the flag starts false, becomes true
\* when a title block's first OCR line reads "references" or "reference" in
\* any case, and is never false again for the rest of that call; every new
\* call starts from false.
C1_FlagOneWay ==
    [][ /\ (running' # running /\ running' # 0) => ~reached_references'
        /\ (running' = running /\ pc # "idle" /\ reached_references) => reached_references'
        /\ (BlockDone /\ CurrentPage.layout[k].type = "title"
              /\ CurrentPage.layout[k].ocr[1] \in ReferenceTitles) => page_reached'
        /\ (pc = "blocks" /\ pc' = "blocks" /\ page_reached) => page_reached'
        /\ (pc = "blocks" /\ pc' = "loop") => reached_references' = page_reached
      ]_vars

\* the second request runs past its references page while the first one,
\* which had reached its references too, is over
C1_Witness ==
    /\ running = 2
    /\ reached_references
    /\ i = 2
    /\ HasReferencesTitle(req[1].upload[1])
    /\ req[1].state \in {"responded", "sent"}

\* C2: a page with a title block reading "References" is itself saved as a
\* pass-through page (the resized original, no two panels), and so is every
\* page after it.
C2_ReferencesPagePassThrough ==
    pc # "idle" =>
        \A n \in 0..(i - 1) :
            (\E m \in 0..n : HasReferencesTitle(pdf_images[m + 1]))
                => PageFile(n).kind = "resized"

\* C3: for a text of more than 512 characters every chunk of the chunking
\* loop has at most 512 characters.
C3_ChunksWithinLimit ==
    (cpc = "split" /\ Len(text) > 512) => \A n \in 1..Len(texts) : Len(texts[n]) <= 512

\* C4: for a text of more than 512 characters the chunks, concatenated in
\* order, are the text, and the loop ends with nothing left over.
C4_ChunksRebuildText ==
    (cpc = "split" /\ Len(text) > 512) => (Concat(texts) = text /\ rest = <<>>)

\* C5: a text of at most 512 characters is one chunk, the text itself.
C5_ShortTextOneChunk ==
    (cpc = "split" /\ Len(text) <= 512) => texts = <<text>>

\* a text of exactly 512 characters with a period in its middle, split
C5_Witness == cpc = "split" /\ Len(text) = 512 /\ text[256] = DOT /\ texts = <<text>>

\* C6: the merged file holds every page's file once, in page order.
C6_MergedInPageOrder ==
    pc = "done" =>
        LET merged == fs[<<temp_dir_name, TRANSLATED_PDF>>].panels
        IN  /\ Len(merged) = Len(pdf_images)
            /\ \A n \in 1..Len(merged) : merged[n].panels[1][0].v[1] = n - 1

\* C7: a translated text is rejected, its block left as it was, exactly when
\* more than 0.8 of its characters lie outside the target script; otherwise
\* the block shows the text.
C7_QualityGate ==
    [][ (BodyBlockDone /\ Len(CurrentPage.layout[k].ocr) > 1) =>
            LET t == Concat(translated_texts')
            IN  IF 5 * OutsideTarget(t) > 4 * Len(t)
                THEN img' = img
                ELSE ShowsText(img', CurrentPage.layout[k], t)
      ]_vars

\* on one page a text at exactly 80% was drawn and a later one above 80% was
\* rejected, leaving the band only the later block covers as it was
C7_Witness ==
    /\ pc = "blocks"
    /\ k = 4
    /\ CurrentPage.layout = LayoutRefMid
    /\ translated_texts = <<OutMostlyOther>>
    /\ img[0].k = "t" /\ img[0].v.text = OutEighty
    /\ img[180] = original_img[180]

\* C8: requests share no per-request state: the merged file a handler wrote
\* is not overwritten by another request while its response waits to be
\* sent, so every response sent carries the document its own handler merged.
\* (That clear_temp_dir may also delete the file is left out of the formula.)
C8_ResponsesCarryOwnDocument ==
    \A r \in 1..MaxRequests :
        /\ (req[r].state = "responded" /\ req[r].path \in DOMAIN fs)
              => fs[req[r].path] = req[r].made
        /\ req[r].state = "sent" => req[r].body = req[r].made

C10_SkipsLeaveBlock ==
    [][ (pc = "blocks" /\ k <= Len(CurrentPage.layout)
           /\ CurrentPage.layout[k].type # "title"
           /\ \/ Len(CurrentPage.layout[k].ocr) < 2
              \/ 5 * OutsideTarget(Concat(translated_texts')) > 4 * Len(Concat(translated_texts'))
              \/ Len(translated_texts') < ChunkCount(CurrentPage.layout[k]))
          => (img' = img /\ pc' = "blocks" /\ k' = k + 1)
      ]_vars

====
